---- MODULE Spec2Model ----
(***************************************************************************)
(* Model of the Modbus RTU hardware-abstraction layer (src/hal).           *)
(*                                                                         *)
(*   SpecCrc     : crc16 (hal_modbus.c:131-147), one byte per step.        *)
(*   Spec        : modbus_read_temperature / modbus_read_pressure          *)
(*                 (hal_modbus.c:150-300 and 303-453), one statement       *)
(*                 group per step, against a serial transport.             *)
(*   SpecSession : hal_modbus_connect / disconnect / write_register /      *)
(*                 read_registers (hal_modbus.c:8-128) over a small heap.  *)
(***************************************************************************)
EXTENDS Integers, Sequences, FiniteSets, TLC

VARIABLES
  \* ---- crc16 ----
  crcBuf,       \* buffer argument of crc16
  crcPos,       \* loop variable pos
  crcVal,       \* local crc
  crcPc,        \* "idle" | "loop" | "done"
  \* ---- modbus_read_temperature / modbus_read_pressure ----
  pc,           \* position in the function
  fn,           \* "temperature" | "pressure"
  addr,         \* int addr
  reg,          \* int reg
  hSerial,      \* "none" | "open" | "closed": the handle CreateFileA returned
  closeCalls,   \* number of CloseHandle(hSerial) calls made
  request,      \* unsigned char request[8], as built so far
  purges,       \* number of PurgeComm calls made
  writes,       \* number of WriteFile calls made
  writeOk,      \* what the last WriteFile call returned
  bytes_written,\* DWORD bytes_written
  reads,        \* number of ReadFile calls made
  readFails,    \* number of ReadFile calls that returned FALSE
  response,     \* the bytes of response[] that ReadFile has filled
  total_read,   \* DWORD total_read
  inspected,    \* the indices i for which the validation has read response[i]
  now,          \* milliseconds elapsed since the function was called
  nowOther,     \* the same in the other sensor's function, called with the same
                \* arguments and given the same result by every transport call
  tick0,        \* GetTickCount() at the time of the call
  start_time,   \* DWORD start_time
  loopEntry,    \* value of now when start_time was taken
  result,       \* what the function returned
  \* ---- hal_modbus_connect / disconnect / write_register / read_registers ----
  heap,         \* the modbus_t blocks malloc has handed out, by address
  handles,      \* the serial handles CreateFileA has handed out, by value
  sessions,     \* the pointers hal_modbus_connect returned to the caller
  heapCorrupt,  \* free() was called on a block that was not allocated
  last          \* the last call made and what it returned

crcVars == <<crcBuf, crcPos, crcVal, crcPc>>
readVars == <<pc, fn, addr, reg, hSerial, closeCalls, request, purges, writes, writeOk, bytes_written,
              reads, readFails, response, total_read, inspected, now, nowOther, tick0, start_time,
              loopEntry, result>>
sessVars == <<heap, handles, sessions, heapCorrupt, last>>
vars == <<crcBuf, crcPos, crcVal, crcPc,
          pc, fn, addr, reg, hSerial, closeCalls, request, purges, writes, writeOk, bytes_written,
          reads, readFails, response, total_read, inspected, now, nowOther, tick0, start_time,
          loopEntry, result,
          heap, handles, sessions, heapCorrupt, last>>

(***************************************************************************)
(* Bounds of the model.                                                    *)
(***************************************************************************)
MaxCrcLen == 3
MaxReadFail == 1
MaxByteCount == 15
MaxWire == 8
MaxBlocks == 1
MaxSessions == 2

(***************************************************************************)
(* Machine arithmetic.                                                     *)
(***************************************************************************)
Byte == 0..255

\* (unsigned char)x for a non-negative int x
U8(x) == x % 256

\* (unsigned short)x
U16(x) == x % 65536

\* a ^ b on non-negative integers
RECURSIVE Xor(_, _)
Xor(a, b) ==
  IF a = 0 THEN b
  ELSE IF b = 0 THEN a
  ELSE (((a % 2) + (b % 2)) % 2) + 2 * Xor(a \div 2, b \div 2)

(***************************************************************************)
(* crc16                                                                   *)
(***************************************************************************)
CrcInit == 65535
CrcPoly == 40961

\* one pass of the inner loop body: test bit 0, shift, conditional xor
CrcShiftWrongPoly(crc) ==
  IF crc % 2 # 0 THEN Xor(crc \div 2, 32773) ELSE crc \div 2

CrcShift(crc) ==
  IF crc % 2 # 0 THEN Xor(crc \div 2, CrcPoly) ELSE crc \div 2

\* for (int i = 8; i != 0; i--) { ... }
\* (the test crc >= 0, true of an unsigned short, makes TLC evaluate the
\* running value at every pass instead of nesting it)
RECURSIVE CrcShifts(_, _)
CrcShifts(crc, i) ==
  IF crc >= 0 /\ i = 0 THEN crc ELSE CrcShifts(CrcShift(crc), i - 1)

\* the body of the outer loop for one buffer byte
CrcByteHighXor(crc, b) == CrcShifts(U16(Xor(crc, b * 256)), 8)

CrcByte(crc, b) == CrcShifts(U16(Xor(crc, b)), 8)

\* crc16(buffer, buffer_length), started at pos with running value crc
RECURSIVE CrcFrom(_, _, _, _)
CrcFrom(buffer, buffer_length, pos, crc) ==
  IF crc >= 0 /\ pos < buffer_length
  THEN CrcFrom(buffer, buffer_length, pos + 1, CrcByte(crc, buffer[pos + 1]))
  ELSE crc

crc16(buffer, buffer_length) == CrcFrom(buffer, buffer_length, 0, CrcInit)

\* crc16 is not running
CrcIdle ==
  /\ crcBuf = <<>>
  /\ crcPos = 0
  /\ crcVal = 0
  /\ crcPc = "idle"

(***************************************************************************)
(* hal_modbus_connect / hal_modbus_disconnect / hal_modbus_write_register  *)
(* / hal_modbus_read_registers                                             *)
(*                                                                         *)
(* A pointer is a block address in Blocks, or 0 for NULL; a handle is a    *)
(* value in Handles, or 0 for NULL; there are as many handle values as     *)
(* block addresses.  malloc may hand out again the address of a block that *)
(* was freed, and CreateFileA the value of a handle that was closed.  The  *)
(* device, baud and slave_id fields are stored and only printed, and are   *)
(* left out.                                                               *)
(***************************************************************************)
Blocks == 1..MaxBlocks
Handles == 1..MaxBlocks

\* Calls are counted as 0, 1, or 2 for "more than once"
Again(n) == IF n < 2 THEN n + 1 ELSE 2

Unallocated == [mem |-> "unallocated", connected |-> 0, hSerial |-> 0, frees |-> 0]
Unopened == [state |-> "unused", closes |-> 0]
NoCall == [op |-> "none", sess |-> 0, ret |-> 0, released |-> FALSE]

SessIdle ==
  /\ heap = [b \in Blocks |-> Unallocated]
  /\ handles = [h \in Handles |-> Unopened]
  /\ sessions = <<>>
  /\ heapCorrupt = FALSE
  /\ last = NoCall

\* The values a read of ctx->connected can produce: the stored value for a
\* live block, anything for a block that has been freed
ReadConnected(ctx) ==
  IF heap[ctx].mem = "live" THEN {heap[ctx].connected} ELSE {0, 1}

\* The values a read of ctx->hSerial can produce
ReadHSerial(ctx) ==
  IF heap[ctx].mem = "live" THEN {heap[ctx].hSerial} ELSE {0} \cup Handles

\* CloseHandle(h)
CloseHandle(hs, h) ==
  [hs EXCEPT ![h] = [state |-> "closed", closes |-> Again(@.closes)]]

\* free(ctx): the block keeps what was stored in it
Free(hp, ctx) ==
  [hp EXCEPT ![ctx] = [@ EXCEPT !.mem = "freed", !.frees = Again(@)]]

\* ctx->hSerial = hSerial; ctx->connected = 1;
OpenedNoFlag(ctx0, h) == [ctx0 EXCEPT !.hSerial = h]

Opened(ctx0, h) == [ctx0 EXCEPT !.hSerial = h, !.connected = 1]

ConnectOutcomes == {"nomem", "open", "getstate", "setstate", "timeouts", "ok"}

\* hal_modbus_connect (8-92)
Connect ==
  /\ Len(sessions) < MaxSessions
  /\ \E outcome \in ConnectOutcomes :
       \/ \* malloc returned NULL
          /\ outcome = "nomem"
          /\ sessions' = Append(sessions, [ptr |-> 0, disconnects |-> 0])
          /\ UNCHANGED <<heap, handles>>
       \/ \E ctx \in {b \in Blocks : heap[b].mem # "live"} :
            LET fresh == [mem |-> "live", connected |-> 0, hSerial |-> 0, frees |-> 0]
            IN  \/ \* CreateFileA returned INVALID_HANDLE_VALUE
                   /\ outcome = "open"
                   /\ heap' = Free([heap EXCEPT ![ctx] = fresh], ctx)
                   /\ sessions' = Append(sessions, [ptr |-> 0, disconnects |-> 0])
                   /\ UNCHANGED handles
                \/ \E h \in {x \in Handles : handles[x].state # "open"} :
                     LET opened == [handles EXCEPT ![h] = [state |-> "open", closes |-> 0]]
                     IN  \/ \* GetCommState, SetCommState or SetCommTimeouts failed
                            /\ outcome \in {"getstate", "setstate", "timeouts"}
                            /\ handles' = CloseHandle(opened, h)
                            /\ heap' = Free([heap EXCEPT ![ctx] = fresh], ctx)
                            /\ sessions' = Append(sessions, [ptr |-> 0, disconnects |-> 0])
                         \/ \* success
                            /\ outcome = "ok"
                            /\ handles' = opened
                            /\ heap' = [heap EXCEPT ![ctx] = Opened(fresh, h)]
                            /\ sessions' = Append(sessions, [ptr |-> ctx, disconnects |-> 0])
  /\ last' = [op |-> "connect", sess |-> Len(sessions'),
              ret |-> sessions'[Len(sessions')].ptr, released |-> FALSE]
  /\ UNCHANGED heapCorrupt
  /\ UNCHANGED crcVars
  /\ UNCHANGED readVars

\* hal_modbus_disconnect (94-103)
Disconnect ==
  \E s \in 1..Len(sessions) :
    /\ sessions' = [sessions EXCEPT ![s].disconnects = Again(@)]
    /\ LET ctx == sessions[s].ptr
       IN  IF ctx = 0
           THEN /\ last' = [op |-> "disconnect", sess |-> s, ret |-> 0, released |-> FALSE]
                /\ UNCHANGED <<heap, handles, heapCorrupt>>
           ELSE \E h \in ReadHSerial(ctx) :
                  /\ handles' = IF h # 0 THEN CloseHandle(handles, h) ELSE handles
                  /\ heap' = Free([heap EXCEPT ![ctx].connected = 0], ctx)
                  /\ heapCorrupt' = (heapCorrupt \/ heap[ctx].mem # "live")
                  /\ last' = [op |-> "disconnect", sess |-> s, ret |-> 0,
                              released |-> heap[ctx].mem # "live"]
    /\ UNCHANGED crcVars
    /\ UNCHANGED readVars

\* if (ctx == NULL || !ctx->connected) return -1; ... return 0;
GuardedCall(s, op, destNull) ==
  LET ctx == sessions[s].ptr
  IN  IF ctx = 0
      THEN last' = [op |-> op, sess |-> s, ret |-> -1, released |-> FALSE]
      ELSE \E c \in ReadConnected(ctx) :
             last' = [op |-> op, sess |-> s,
                      ret |-> IF c = 0 \/ destNull THEN -1 ELSE 0,
                      released |-> heap[ctx].mem # "live"]

\* hal_modbus_write_register (105-113)
WriteRegister ==
  /\ \E s \in 1..Len(sessions) : GuardedCall(s, "write", FALSE)
  /\ UNCHANGED <<heap, handles, sessions, heapCorrupt>>
  /\ UNCHANGED crcVars
  /\ UNCHANGED readVars

\* hal_modbus_read_registers (115-128)
ReadRegisters ==
  /\ \E s \in 1..Len(sessions), destNull \in BOOLEAN : GuardedCall(s, "read", destNull)
  /\ UNCHANGED <<heap, handles, sessions, heapCorrupt>>
  /\ UNCHANGED crcVars
  /\ UNCHANGED readVars

(***************************************************************************)
(* modbus_read_temperature / modbus_read_pressure                          *)
(***************************************************************************)
\* COMMTIMEOUTS set by the two functions
ReadIntervalTimeout == 50
ReadTotalTimeoutMultiplier == 10
ReadTotalTimeoutConstant(f) == IF f = "temperature" THEN 1000 ELSE 500

\* sizeof(response), the frame length the loop waits for, the loop's deadline
\* in milliseconds, and the two Sleep() arguments
ResponseSize == 256
MinResponse == 7
OverallTimeout == 1000
SettleDelay == 100
PollInterval == 10

\* A DWORD, kept as two 16-bit halves: its value is hi * 65536 + lo
DWord(h, l) == [hi |-> h, lo |-> l]

\* GetTickCount(): a DWORD millisecond counter that wraps at 2^32; t0 is its
\* value when the function was called, elapsed the milliseconds since
GetTickCount(t0, elapsed) ==
  LET l == t0.lo + elapsed
  IN  DWord((t0.hi + (l \div 65536)) % 65536, l % 65536)

\* (GetTickCount() - start_time) in DWORD arithmetic
Elapsed(tick, start) ==
  LET borrow == IF tick.lo < start.lo THEN 1 ELSE 0
  IN  DWord((tick.hi - start.hi - borrow) % 65536, (tick.lo - start.lo) % 65536)

\* d < n for a DWORD d and 0 <= n < 65536
DWordLess(d, n) == d.hi = 0 /\ d.lo < n

\* The longest a ReadFile for `requested` bytes blocks under the COMMTIMEOUTS
ReadTotalTimeoutConstantOnly(f, requested) == ReadTotalTimeoutConstant(f)

ReadTotalTimeout(f, requested) ==
  ReadTotalTimeoutConstant(f) + ReadTotalTimeoutMultiplier * requested

\* float results: the sentinel -1.0f and raw / scale, kept as exact fractions
ErrorReturn(why) == [kind |-> "error", err |-> why, num |-> -1, den |-> 1]
Scale(f) == IF f = "temperature" THEN 10 ELSE 100
ValueReturn(f, raw) == [kind |-> "value", err |-> "none", num |-> raw, den |-> Scale(f)]
Pending == [kind |-> "pending", err |-> "none", num |-> 0, den |-> 1]

\* request[0..5]
RequestHeader(a, r) ==
  <<U8(a), 3, U8(r \div 256), U8(r % 256), 0, 1>>

\* request[6], request[7]: crc low byte, then crc high byte
CrcTrailerSwapped(crc) == <<U8((crc \div 256) % 256), U8(crc % 256)>>

CrcTrailer(crc) == <<U8(crc % 256), U8((crc \div 256) % 256)>>

BuildRequest(a, r) ==
  LET head == RequestHeader(a, r)
  IN  head \o CrcTrailer(crc16(head, 6))

\* raw = (response[3] << 8) | response[4], as unsigned short
DecodeRawLittleEndian(resp) == U16(resp[5] * 256 + resp[4])

DecodeRawSigned(resp) ==
  LET v == U16(resp[4] * 256 + resp[5])
  IN  IF v >= 32768 THEN v - 65536 ELSE v

DecodeRaw(resp) == U16(resp[4] * 256 + resp[5])

\* total_read < 7
IncompleteHeaderOnly(n) == n < 5

IncompleteOnlyEmpty(n) == n < 1

Incomplete(n) == n < MinResponse

\* response[0] != addr || response[1] != 0x03
EchoMismatchAddrOnly(resp, a) == resp[1] # a

EchoMismatch(resp, a) == resp[1] # a \/ resp[2] # 3

\* total_read < 5 || response[2] != 2
BadByteCountBelow(resp, n) == n < 5 \/ resp[3] < 2

BadByteCountOrCrc(resp, n) ==
  \/ n < 5
  \/ resp[3] # 2
  \/ resp[6] + 256 * resp[7] # crc16(SubSeq(resp, 1, 5), 5)

BadByteCount(resp, n) == n < 5 \/ resp[3] # 2

(***************************************************************************)
(* The environment: the caller's arguments and the device on the wire.     *)
(***************************************************************************)
Functions == {"temperature", "pressure"}
OtherFunction(f) == IF f = "temperature" THEN "pressure" ELSE "temperature"
AddrSet == {1, 255, 257}
RegSet == {0, 258}
\* GetTickCount() at the call: just after boot, and 600 ms before it wraps
StartTicks == {DWord(0, 0), DWord(65535, 64936)}
RawSet == {0, 250, 65535}
ShortWrites == {0, 5}

\* The byte-count values a device may send: 0..MaxByteCount, 128 and 255
ByteCounts == (0..MaxByteCount) \cup {128, 255}

\* `sofar` starts a well-formed single-register reply from slave byte `slave`
GoodHead(sofar, slave) ==
  /\ Len(sofar) >= 3
  /\ SubSeq(sofar, 1, 3) = <<slave, 3, 2>>

\* The CRC a device computes for its well-formed reply carrying raw value r
ReplyCrc ==
  [sl \in {U8(a) : a \in AddrSet}, r \in RawSet |->
     crc16(<<sl, 3, 2, U8(r \div 256), U8(r % 256)>>, 5)]

\* The bytes a device may put on the wire after the bytes in `sofar`,
\* answering a request for slave byte `slave`: another slave's address, an
\* exception function code (0x83), every byte count of ByteCounts behind a
\* correct echo, and behind a well-formed head the data bytes of RawSet, then
\* a right or a wrong CRC low byte, the CRC high byte, and stray bytes.
NextByte(sofar, slave) ==
  LET k == Len(sofar)
  IN  CASE k = 0 -> {slave, U8(slave + 1)}
        [] k = 1 -> IF sofar[1] = slave THEN {3, 131} ELSE {3}
        [] k = 2 -> IF sofar = <<slave, 3>> THEN ByteCounts ELSE {2}
        [] k = 3 -> IF GoodHead(sofar, slave)
                    THEN {U8(r \div 256) : r \in RawSet} ELSE {0}
        [] k = 4 -> IF GoodHead(sofar, slave)
                    THEN {U8(r % 256) : r \in {q \in RawSet : U8(q \div 256) = sofar[4]}}
                    ELSE {250}
        [] k = 5 -> IF GoodHead(sofar, slave)
                    THEN LET c == ReplyCrc[slave, sofar[4] * 256 + sofar[5]]
                         IN  {U8(c), U8(c + 1)}
                    ELSE {0}
        [] k = 6 -> IF GoodHead(sofar, slave)
                    THEN {U8(ReplyCrc[slave, sofar[4] * 256 + sofar[5]] \div 256)}
                    ELSE {0}
        [] OTHER -> {0}

\* All ways the wire can continue `sofar` by exactly n bytes
RECURSIVE Extensions(_, _, _)
Extensions(sofar, slave, n) ==
  IF n = 0 THEN {sofar}
  ELSE UNION {Extensions(Append(sofar, b), slave, n - 1) : b \in NextByte(sofar, slave)}

ReadIdle ==
  /\ pc = "idle"
  /\ fn = "temperature"
  /\ addr = 0
  /\ reg = 0
  /\ hSerial = "none"
  /\ closeCalls = 0
  /\ request = <<>>
  /\ purges = 0
  /\ writes = 0
  /\ writeOk = FALSE
  /\ bytes_written = 0
  /\ reads = 0
  /\ readFails = 0
  /\ response = <<>>
  /\ total_read = 0
  /\ inspected = {}
  /\ now = 0
  /\ nowOther = 0
  /\ tick0 = DWord(0, 0)
  /\ start_time = DWord(0, 0)
  /\ loopEntry = 0
  /\ result = Pending

\* CloseHandle(hSerial); return -1.0f;
CloseAndFail(why) ==
  /\ hSerial' = "closed"
  /\ closeCalls' = closeCalls + 1
  /\ result' = ErrorReturn(why)
  /\ pc' = "done"

\* Entry and CreateFileA (150-168)
Call ==
  /\ pc = "idle"
  /\ \E f \in Functions, a \in AddrSet, r \in RegSet, t \in StartTicks, ok \in BOOLEAN :
       /\ fn' = f
       /\ addr' = a
       /\ reg' = r
       /\ tick0' = t
       /\ IF ok
          THEN /\ hSerial' = "open"
               /\ pc' = "getstate"
               /\ UNCHANGED result
          ELSE /\ hSerial' = "none"
               /\ pc' = "done"
               /\ result' = ErrorReturn("TransportUnavailable")
  /\ UNCHANGED <<closeCalls, request, purges, writes, writeOk, bytes_written, reads, readFails, response,
                 total_read, inspected, now, nowOther, start_time, loopEntry>>
  /\ UNCHANGED crcVars
  /\ UNCHANGED sessVars

\* GetCommState (174-178)
GetState ==
  /\ pc = "getstate"
  /\ \E ok \in BOOLEAN :
       IF ok
       THEN pc' = "setstate" /\ UNCHANGED <<hSerial, closeCalls, result>>
       ELSE CloseAndFail("TransportUnavailable")
  /\ UNCHANGED <<fn, addr, reg, request, purges, writes, writeOk, bytes_written, reads, readFails, response,
                 total_read, inspected, now, nowOther, tick0, start_time, loopEntry>>
  /\ UNCHANGED crcVars
  /\ UNCHANGED sessVars

\* SetCommState (180-202)
SetState ==
  /\ pc = "setstate"
  /\ \E ok \in BOOLEAN :
       IF ok
       THEN pc' = "settimeouts" /\ UNCHANGED <<hSerial, closeCalls, result>>
       ELSE CloseAndFail("TransportUnavailable")
  /\ UNCHANGED <<fn, addr, reg, request, purges, writes, writeOk, bytes_written, reads, readFails, response,
                 total_read, inspected, now, nowOther, tick0, start_time, loopEntry>>
  /\ UNCHANGED crcVars
  /\ UNCHANGED sessVars

\* SetCommTimeouts (204-216)
SetTimeouts ==
  /\ pc = "settimeouts"
  /\ \E ok \in BOOLEAN :
       IF ok
       THEN pc' = "build" /\ UNCHANGED <<hSerial, closeCalls, result>>
       ELSE CloseAndFail("TransportUnavailable")
  /\ UNCHANGED <<fn, addr, reg, request, purges, writes, writeOk, bytes_written, reads, readFails, response,
                 total_read, inspected, now, nowOther, tick0, start_time, loopEntry>>
  /\ UNCHANGED crcVars
  /\ UNCHANGED sessVars

\* request[0..7] (218-230)
Build ==
  /\ pc = "build"
  /\ request' = BuildRequest(addr, reg)
  /\ pc' = "purge"
  /\ UNCHANGED <<fn, addr, reg, hSerial, closeCalls, purges, writes, writeOk, bytes_written, reads, readFails,
                 response, total_read, inspected, now, nowOther, tick0, start_time, loopEntry, result>>
  /\ UNCHANGED crcVars
  /\ UNCHANGED sessVars

\* PurgeComm (232-233)
Purge ==
  /\ pc = "purge"
  /\ purges' = purges + 1
  /\ pc' = "write"
  /\ UNCHANGED <<fn, addr, reg, hSerial, closeCalls, request, writes, writeOk, bytes_written, reads, readFails,
                 response, total_read, inspected, now, nowOther, tick0, start_time, loopEntry, result>>
  /\ UNCHANGED crcVars
  /\ UNCHANGED sessVars

\* !WriteFile(hSerial, request, 8, &bytes_written, NULL) || bytes_written != 8
WriteFailedIgnoringCount(ok, n) == ~ok

WriteFailed(ok, n) == ~ok \/ n # 8

\* WriteFile (235-241)
Write ==
  /\ pc = "write"
  /\ writes' = writes + 1
  /\ \E ok \in BOOLEAN, n \in ShortWrites \cup {8} :
       /\ writeOk' = ok
       /\ bytes_written' = n
       /\ IF WriteFailed(ok, n)
          THEN CloseAndFail("WriteFailed")
          ELSE pc' = "settle" /\ UNCHANGED <<hSerial, closeCalls, result>>
  /\ UNCHANGED <<fn, addr, reg, request, purges, reads, readFails, response,
                 total_read, inspected, now, nowOther, tick0, start_time, loopEntry>>
  /\ UNCHANGED crcVars
  /\ UNCHANGED sessVars

\* Sleep(100) and the loop's locals (243-250)
Settle ==
  /\ pc = "settle"
  /\ now' = now + SettleDelay
  /\ nowOther' = nowOther + SettleDelay
  /\ start_time' = GetTickCount(tick0, now')
  /\ loopEntry' = now'
  /\ total_read' = 0
  /\ pc' = "loop"
  /\ UNCHANGED <<fn, addr, reg, hSerial, closeCalls, request, purges, writes, writeOk, bytes_written, reads,
                 readFails, response, inspected, tick0, result>>
  /\ UNCHANGED crcVars
  /\ UNCHANGED sessVars

\* total_read < sizeof(response) && (GetTickCount() - start_time) < 1000
LoopGuardNoDeadline(n, tick, start) == n < ResponseSize

LoopGuard(n, tick, start) ==
  n < ResponseSize /\ DWordLess(Elapsed(tick, start), OverallTimeout)

\* sizeof(response) - total_read
Requested(n) == ResponseSize - n

Zeros(n) == [i \in 1..n |-> 0]

\* One pass of the while loop (252-260): ReadFile, then break or Sleep(10).
\* A ReadFile that returns no byte has blocked for the whole read timeout; one
\* that returns some bytes but fewer than asked for has waited the interval
\* timeout after the last of them; one that fails, or that returns all it
\* asked for, returns at once.  The device sends up to MaxWire bytes of its
\* choice; when it goes on sending after them, it sends zeros until the read
\* has all it asked for.
LoopPass ==
  /\ pc = "loop"
  /\ LoopGuard(total_read, GetTickCount(tick0, now), start_time)
  /\ reads' = reads + 1
  /\ LET requested == Requested(total_read)
         left == IF Len(response) < MaxWire THEN MaxWire - Len(response) ELSE 0
     IN  \/ \* ReadFile returned FALSE
            /\ readFails < MaxReadFail
            /\ readFails' = readFails + 1
            /\ now' = now + PollInterval
            /\ nowOther' = nowOther + PollInterval
            /\ UNCHANGED <<response, total_read, pc>>
         \/ \* ReadFile returned TRUE with bytes_read = 0
            /\ now' = now + ReadTotalTimeout(fn, requested) + PollInterval
            /\ nowOther' = nowOther + ReadTotalTimeout(OtherFunction(fn), requested) + PollInterval
            /\ UNCHANGED <<response, total_read, pc, readFails>>
         \/ \* ReadFile returned TRUE with bytes_read > 0
            \E bytes_read \in (1..(IF left < requested THEN left ELSE requested))
                                \cup {requested} :
              LET chosen == IF bytes_read < left THEN bytes_read ELSE left
                  wait == IF bytes_read < requested THEN ReadIntervalTimeout ELSE 0
              IN  \E filled \in Extensions(response, request[1], chosen) :
                    /\ response' = filled \o Zeros(bytes_read - chosen)
                    /\ total_read' = total_read + bytes_read
                    /\ IF total_read' >= MinResponse
                       THEN /\ pc' = "after"
                            /\ now' = now + wait
                            /\ nowOther' = nowOther + wait
                       ELSE /\ pc' = "loop"
                            /\ now' = now + wait + PollInterval
                            /\ nowOther' = nowOther + wait + PollInterval
                    /\ UNCHANGED readFails
  /\ UNCHANGED <<fn, addr, reg, hSerial, closeCalls, request, purges, writes, writeOk, bytes_written,
                 inspected, tick0, start_time, loopEntry, result>>
  /\ UNCHANGED crcVars
  /\ UNCHANGED sessVars

\* The while condition is false
LoopExit ==
  /\ pc = "loop"
  /\ ~LoopGuard(total_read, GetTickCount(tick0, now), start_time)
  /\ pc' = "after"
  /\ UNCHANGED <<fn, addr, reg, hSerial, closeCalls, request, purges, writes, writeOk, bytes_written, reads,
                 readFails, response, total_read, inspected, now, nowOther, tick0, start_time, loopEntry,
                 result>>
  /\ UNCHANGED crcVars
  /\ UNCHANGED sessVars

\* total_read < 7, else CloseHandle (262-269)
AfterLoop ==
  /\ pc = "after"
  /\ IF Incomplete(total_read)
     THEN CloseAndFail("IncompleteResponse")
     ELSE /\ hSerial' = "closed"
          /\ closeCalls' = closeCalls + 1
          /\ pc' = "echo"
          /\ UNCHANGED result
  /\ UNCHANGED <<fn, addr, reg, request, purges, writes, writeOk, bytes_written, reads, readFails, response,
                 total_read, inspected, now, nowOther, tick0, start_time, loopEntry>>
  /\ UNCHANGED crcVars
  /\ UNCHANGED sessVars

\* The elements of response[] the echo check reads, in its condition and in
\* the message it prints
EchoReads == {0, 1}

\* The element the data-length check reads: response[2] in its condition
\* once total_read < 5 is false, or in its message when total_read >= 3
ByteCountReads(n) == IF n >= 5 \/ n >= 3 THEN {2} ELSE {}

\* The elements the decoding reads
DecodeReads == {3, 4}

\* The echo check (278-284)
CheckEcho ==
  /\ pc = "echo"
  /\ IF EchoMismatch(response, addr)
     THEN CloseAndFail("UnexpectedEcho")
     ELSE pc' = "bytecount" /\ UNCHANGED <<hSerial, closeCalls, result>>
  /\ inspected' = inspected \cup EchoReads
  /\ UNCHANGED <<fn, addr, reg, request, purges, writes, writeOk, bytes_written, reads, readFails, response,
                 total_read, now, nowOther, tick0, start_time, loopEntry>>
  /\ UNCHANGED crcVars
  /\ UNCHANGED sessVars

\* The data-length check (286-292)
CheckByteCount ==
  /\ pc = "bytecount"
  /\ IF BadByteCount(response, total_read)
     THEN CloseAndFail("UnexpectedByteCount")
     ELSE pc' = "decode" /\ UNCHANGED <<hSerial, closeCalls, result>>
  /\ inspected' = inspected \cup ByteCountReads(total_read)
  /\ UNCHANGED <<fn, addr, reg, request, purges, writes, writeOk, bytes_written, reads, readFails, response,
                 total_read, now, nowOther, tick0, start_time, loopEntry>>
  /\ UNCHANGED crcVars
  /\ UNCHANGED sessVars

\* Decode, scale and return (294-299)
Decode ==
  /\ pc = "decode"
  /\ result' = ValueReturn(fn, DecodeRaw(response))
  /\ pc' = "done"
  /\ inspected' = inspected \cup DecodeReads
  /\ UNCHANGED <<fn, addr, reg, hSerial, closeCalls, request, purges, writes, writeOk, bytes_written, reads,
                 readFails, response, total_read, now, nowOther, tick0, start_time, loopEntry>>
  /\ UNCHANGED crcVars
  /\ UNCHANGED sessVars

Init == ReadIdle /\ CrcIdle /\ SessIdle

Next ==
  \/ Call
  \/ GetState
  \/ SetState
  \/ SetTimeouts
  \/ Build
  \/ Purge
  \/ Write
  \/ Settle
  \/ LoopPass
  \/ LoopExit
  \/ AfterLoop
  \/ CheckEcho
  \/ CheckByteCount
  \/ Decode

Spec == Init /\ [][Next]_vars

InitSession == SessIdle /\ CrcIdle /\ ReadIdle

NextSession ==
  \/ Connect
  \/ Disconnect
  \/ WriteRegister
  \/ ReadRegisters

SpecSession == InitSession /\ [][NextSession]_vars

(***************************************************************************)
(* SpecCrc: crc16 run one buffer byte per step on bounded inputs.          *)
(***************************************************************************)
CrcSampleBytes == {0, 1, 3, 10, 128, 255}

RECURSIVE SeqsUpTo(_, _)
SeqsUpTo(S, n) ==
  IF n = 0 THEN {<<>>}
  ELSE LET shorter == SeqsUpTo(S, n - 1)
       IN  shorter \cup {Append(s, b) : s \in shorter, b \in S}

CrcInputs ==
  SeqsUpTo(CrcSampleBytes, MaxCrcLen) \cup {<<b>> : b \in Byte}
    \cup {<<1, 3, 0, 0, 0, 1>>, <<1, 3, 0, 0, 0, 10>>}

CrcInitState ==
  /\ crcBuf \in CrcInputs
  /\ crcPos = 0
  /\ crcVal = CrcInit
  /\ crcPc = "loop"

CrcLoop ==
  /\ crcPc = "loop"
  /\ crcPos < Len(crcBuf)
  /\ crcVal' = CrcByte(crcVal, crcBuf[crcPos + 1])
  /\ crcPos' = crcPos + 1
  /\ UNCHANGED <<crcBuf, crcPc>>
  /\ UNCHANGED readVars
  /\ UNCHANGED sessVars

CrcReturn ==
  /\ crcPc = "loop"
  /\ ~(crcPos < Len(crcBuf))
  /\ crcPc' = "done"
  /\ UNCHANGED <<crcBuf, crcPos, crcVal>>
  /\ UNCHANGED readVars
  /\ UNCHANGED sessVars

InitCrc == CrcInitState /\ ReadIdle /\ SessIdle

NextCrc ==
  \/ CrcLoop
  \/ CrcReturn

SpecCrc == InitCrc /\ [][NextCrc]_vars

(***************************************************************************)
(* Reference Modbus RTU CRC-16, bit-serial form: the message is fed one    *)
(* bit at a time, least significant bit first; the feedback bit is the     *)
(* register's low bit xor the message bit; the register shifts right and   *)
(* 0xA001 is xor-ed in when the feedback bit is 1.                         *)
(***************************************************************************)
RefBit(r, bit) ==
  LET fb == ((r % 2) + bit) % 2
  IN  IF fb = 1 THEN Xor(r \div 2, 40961) ELSE r \div 2

RECURSIVE RefByte(_, _, _)
RefByte(r, b, k) ==
  IF r >= 0 /\ k = 8 THEN r ELSE RefByte(RefBit(r, (b \div (2 ^ k)) % 2), b, k + 1)

RECURSIVE RefFrom(_, _, _)
RefFrom(s, i, r) ==
  IF r >= 0 /\ i > Len(s) THEN r ELSE RefFrom(s, i + 1, RefByte(r, s[i], 0))

RefCrc(s) == RefFrom(s, 1, 65535)

\* C9: crc16 returns the reference Modbus RTU CRC-16 of its buffer, and the
\* running value fits in 16 bits at every step.
C9_CrcMatchesReference ==
  /\ crcVal \in 0..65535
  /\ crcPc = "done" => crcVal = RefCrc(crcBuf)
  /\ crcPc = "loop" => crcVal = RefCrc(SubSeq(crcBuf, 1, crcPos))

C9_Witness ==
  /\ crcPc = "done"
  /\ Len(crcBuf) = MaxCrcLen
  /\ crcBuf[1] = 255
  /\ crcVal = crc16(crcBuf, Len(crcBuf))

(***************************************************************************)
(* Properties of modbus_read_temperature / modbus_read_pressure (Spec).    *)
(***************************************************************************)
Returned == pc = "done"
LoopEnded == pc \in {"after", "echo", "bytecount", "decode", "done"} /\ writes = 1
               /\ result.err # "WriteFailed"
Failed(why) == result = ErrorReturn(why)

\* C3 (as claimed): when the transport never delivers a byte, the reading
\* loop has ended no later than OverallTimeout + PollInterval milliseconds
\* after it was entered.
C3_DeadlineAsClaimed ==
  (LoopEnded /\ total_read = 0) => now - loopEntry <= OverallTimeout + PollInterval

\* C4: when fewer than 7 bytes have been accumulated at the end of the loop
\* the function returns the error result -1.0 and no response byte is parsed:
\* the validating and decoding steps are reached only with 7 bytes or more.
C4_ShortResponseIsError ==
  /\ (Returned /\ LoopEnded /\ total_read < 7) =>
        /\ result.kind = "error"
        /\ result.num = -1 /\ result.den = 1
  /\ pc \in {"echo", "bytecount", "decode"} => total_read >= 7
  /\ result.kind = "value" => total_read >= 7

C4_Witness ==
  /\ Returned
  /\ total_read = 4
  /\ reads >= 2
  /\ Failed("IncompleteResponse")

\* C5: a value is returned only if response[0] is the requested slave address
\* and response[1] is 0x03; a complete response that differs in either byte
\* ends in the UnexpectedEcho error.
C5_EchoChecked ==
  /\ result.kind = "value" =>
        /\ response[1] = addr
        /\ response[1] = request[1]
        /\ response[2] = 3
  /\ (Returned /\ LoopEnded /\ total_read >= 7
        /\ (response[1] # request[1] \/ response[1] # addr \/ response[2] # 3)) =>
        Failed("UnexpectedEcho")

C5_Witness ==
  /\ Returned
  /\ Failed("UnexpectedEcho")
  /\ response[1] = request[1]
  /\ response[2] = 131

\* C6: a complete response with a correct echo whose byte-count field is not
\* 2 ends in the UnexpectedByteCount error and is never decoded.
C6_ByteCountChecked ==
  /\ (Returned /\ LoopEnded /\ total_read >= 7
        /\ response[1] = addr /\ response[2] = 3 /\ response[3] # 2) =>
        Failed("UnexpectedByteCount")
  /\ (pc = "decode" \/ result.kind = "value") => response[3] = 2

C6_Witness ==
  /\ Returned
  /\ Failed("UnexpectedByteCount")
  /\ response[1] = addr /\ response[2] = 3 /\ response[3] = 255
  /\ total_read = 8

\* C7: for a slave address in 0..255, a response that starts
\* [addr, 0x03, 0x02, raw >> 8, raw & 0xFF], accumulated over any number of
\* partial reads, is returned as exactly raw over the sensor's scale.
C7_RoundTrip ==
  \A raw \in RawSet :
    (Returned /\ LoopEnded /\ total_read >= 7 /\ addr \in Byte
       /\ SubSeq(response, 1, 5) = <<addr, 3, 2, raw \div 256, raw % 256>>) =>
       /\ result.kind = "value"
       /\ result.num = raw
       /\ result.den = (IF fn = "temperature" THEN 10 ELSE 100)

C7_Witness ==
  /\ Returned
  /\ fn = "temperature" /\ addr = 1
  /\ reads = 3 /\ total_read = 7
  /\ SubSeq(response, 1, 5) = <<1, 3, 2, 0, 250>>
  /\ result = [kind |-> "value", err |-> "none", num |-> 250, den |-> 10]

\* The reference CRC-16 of the six header bytes of the request for (a, r)
RefRequestCrc ==
  [a \in AddrSet, r \in RegSet |->
     RefCrc(<<a % 256, 3, (r \div 256) % 256, r % 256, 0, 1>>)]

\* C8: the request, once built, and so the 8 bytes handed to WriteFile, is
\* [slave, 0x03, reg_hi, reg_lo, 0x00, 0x01, crc_lo, crc_hi] with crc the
\* Modbus CRC-16 of the first six bytes.
C8_RequestFrame ==
  request # <<>> =>
    /\ Len(request) = 8
    /\ SubSeq(request, 1, 6) =
         <<addr % 256, 3, (reg \div 256) % 256, reg % 256, 0, 1>>
    /\ request[7] = RefRequestCrc[addr, reg] % 256
    /\ request[8] = RefRequestCrc[addr, reg] \div 256

C8_Witness ==
  /\ writes = 1
  /\ addr = 255 /\ reg = 258
  /\ SubSeq(request, 1, 6) = <<255, 3, 1, 2, 0, 1>>

\* C10 (as claimed): the request for slave 1, register 0 carries the CRC
\* bytes 0x0A (low) and 0xC5 (high).
C10_TrailerAsClaimed ==
  (request # <<>> /\ SubSeq(request, 1, 6) = <<1, 3, 0, 0, 0, 1>>) =>
    request[7] = 10 /\ request[8] = 197

\* C10 (amended): the request for slave 1, register 0 carries the CRC bytes
\* 0x84 (low) and 0x0A (high): crc16 of [01 03 00 00 00 01] is 0x0A84.
C10_Trailer ==
  (request # <<>> /\ SubSeq(request, 1, 6) = <<1, 3, 0, 0, 0, 1>>) =>
    request[7] = 132 /\ request[8] = 10

C10_Witness ==
  /\ writes = 1
  /\ request = <<1, 3, 0, 0, 0, 1, 132, 10>>

(***************************************************************************)
(* Properties of the register session (SpecSession).                       *)
(***************************************************************************)
\* C1 (as claimed): a read or write on a session that was not connected, or
\* on which hal_modbus_disconnect has been called, returns -1 and touches no
\* released session storage.
C1_NotConnectedAsClaimed ==
  (/\ last.op \in {"read", "write"}
   /\ \/ sessions[last.sess].ptr = 0
      \/ sessions[last.sess].disconnects > 0) =>
     /\ last.ret = -1
     /\ ~last.released

\* C2 (as claimed): however often hal_modbus_disconnect is called on a
\* session, no handle is closed twice, no block is freed twice, and no call
\* touches released storage.
C2_DisconnectIdempotentAsClaimed ==
  /\ \A b \in Blocks : heap[b].frees <= 1
  /\ \A h \in Handles : handles[h].closes <= 1
  /\ ~heapCorrupt
  /\ last.op = "disconnect" => ~last.released

\* C11: every hal_modbus_connect call either returns NULL, and then leaves no
\* block allocated and no handle open that was not so before the call (what
\* it opened is closed once, what it allocated is freed once), or returns a
\* live block with connected = 1 that holds an open handle.
LiveBlocks(hp) == {b \in Blocks : hp[b].mem = "live"}
OpenHandles(hs) == {h \in Handles : hs[h].state = "open"}

C11_ConnectAllOrNothing ==
  [][(last'.op = "connect" /\ Len(sessions') = Len(sessions) + 1) =>
       LET ctx == last'.ret
       IN  IF ctx = 0
           THEN /\ sessions'[Len(sessions')].ptr = 0
                /\ LiveBlocks(heap') = LiveBlocks(heap)
                /\ OpenHandles(handles') = OpenHandles(handles)
                /\ \A b \in Blocks : heap'[b] # heap[b] =>
                     heap'[b].mem = "freed" /\ heap'[b].frees = 1
                /\ \A h \in Handles : handles'[h] # handles[h] =>
                     handles'[h] = [state |-> "closed", closes |-> 1]
           ELSE /\ sessions'[Len(sessions')].ptr = ctx
                /\ ctx \in Blocks
                /\ heap'[ctx].mem = "live"
                /\ heap'[ctx].connected = 1
                /\ heap'[ctx].hSerial \in Handles
                /\ handles'[heap'[ctx].hSerial].state = "open"
                /\ ctx \notin LiveBlocks(heap)
                /\ heap'[ctx].hSerial \notin OpenHandles(handles)]_vars

\* the first connect failed after the port had been opened: the handle it
\* opened is closed and the block it allocated is freed
C11_Witness ==
  /\ Len(sessions) = 1
  /\ last.op = "connect" /\ last.ret = 0
  /\ \E h \in Handles : handles[h] = [state |-> "closed", closes |-> 1]
  /\ \E b \in Blocks : heap[b].mem = "freed" /\ heap[b].frees = 1

\* C12: within one sensor read the buffers are purged before the request is
\* written, WriteFile is called at most once, no ReadFile is issued unless
\* that one write returned TRUE with all 8 bytes written, and a write that
\* failed or was short ends the call with an error and no read.
C12_PurgeWriteRead ==
  /\ writes <= 1
  /\ purges <= 1
  /\ writes = 1 => purges = 1
  /\ pc = "write" => purges = 1 /\ writes = 0
  /\ reads > 0 => writes = 1 /\ writeOk /\ bytes_written = 8
  /\ pc \in {"settle", "loop", "after", "echo", "bytecount", "decode"} =>
       writes = 1 /\ writeOk /\ bytes_written = 8
  /\ (writes = 1 /\ (~writeOk \/ bytes_written # 8)) =>
       pc = "done" /\ result = ErrorReturn("WriteFailed") /\ reads = 0

\* WriteFile returned TRUE but wrote 5 of the 8 bytes: error, nothing read
C12_Witness ==
  /\ pc = "done"
  /\ writes = 1 /\ writeOk /\ bytes_written = 5
  /\ result = ErrorReturn("WriteFailed")
  /\ reads = 0

\* C13: in every state the accumulated byte count is the number of bytes in
\* response[] and is at most the 256 bytes the buffer holds, and a ReadFile
\* is issued only while fewer than 7 bytes are accumulated and fewer than
\* 1000 ms have passed since start_time was taken; what it returns fits in
\* the rest of the buffer.
C13_LoopBounds ==
  /\ [](total_read <= ResponseSize /\ Len(response) = total_read)
  /\ [][reads' # reads =>
          /\ pc = "loop"
          /\ total_read < MinResponse
          /\ now - loopEntry < OverallTimeout
          /\ total_read' - total_read <= ResponseSize - total_read]_vars

\* a second ReadFile filled the buffer to its last byte
C13_Witness ==
  /\ pc = "after"
  /\ reads = 2
  /\ total_read = ResponseSize
  /\ Len(response) = ResponseSize

\* C14: when the function has returned after CreateFileA succeeded, the
\* handle is closed and CloseHandle was called on it exactly once.  The code
\* closes the handle at line 269 (422) and again at 282 and 290 (435 and
\* 443) when it rejects the echo or the byte count.
C14_ClosedOnceAsClaimed ==
  (pc = "done" /\ hSerial # "none") => (hSerial = "closed" /\ closeCalls = 1)

\* What the validation returns for sensor f and address a when the first five
\* bytes of a complete response are `head`
OutcomeOfHead(f, a, head) ==
  IF head[1] # a \/ head[2] # 3 THEN ErrorReturn("UnexpectedEcho")
  ELSE IF head[3] # 2 THEN ErrorReturn("UnexpectedByteCount")
  ELSE [kind |-> "value", err |-> "none",
        num |-> head[4] * 256 + head[5],
        den |-> IF f = "temperature" THEN 10 ELSE 100]

\* C15: the result of a call that received a complete response is determined
\* by the sensor, the address and response[0..4] alone, so two responses that
\* differ only from response[5] on give the same result; a frame with a right
\* echo and byte count is decoded whatever its CRC bytes are.
C15_CrcNotVerified ==
  (Returned /\ LoopEnded /\ total_read >= MinResponse) =>
     result = OutcomeOfHead(fn, addr, SubSeq(response, 1, 5))

\* a frame whose CRC bytes are not the CRC-16 of its first five bytes was
\* decoded and returned as a value
C15_Witness ==
  /\ Returned
  /\ result.kind = "value"
  /\ result.num = 250
  /\ total_read = 7
  /\ response[6] + 256 * response[7] # RefCrc(SubSeq(response, 1, 5))

\* C16: every element of response[] the validation reads was received: the
\* validation starts only with at least 2 bytes received, reads only
\* response[0..4] and only below total_read, and reads response[2],
\* response[3] and response[4] only when at least 5 bytes were received.
C16_InspectedWithinReceived ==
  /\ pc \in {"echo", "bytecount"} => total_read >= 2
  /\ pc = "decode" => total_read >= 5
  /\ \A i \in inspected : i \in 0..4 /\ i < total_read /\ i < Len(response)
  /\ inspected \cap {0, 1} # {} => total_read >= 2
  /\ inspected \cap {2, 3, 4} # {} => total_read >= 5

\* a response was read up to response[4] and decoded
C16_Witness ==
  /\ Returned
  /\ result.kind = "value"
  /\ inspected = 0..4
  /\ total_read = 7
  /\ reads = 2

\* C17: for every addr, a complete response whose first byte is request[0],
\* the address byte that was sent, whose second byte is 0x03 and whose byte
\* count is 2 is accepted and decoded.  The code compares response[0] with
\* the int addr, not with the byte it sent, so no response is accepted when
\* addr is outside 0..255.
C17_SentAddressEchoAcceptedAsClaimed ==
  (Returned /\ LoopEnded /\ total_read >= MinResponse
     /\ response[1] = request[1] /\ response[2] = 3 /\ response[3] = 2) =>
     result.kind = "value"

\* C18: a call that returns a value returns a raw value in 0..65535 over the
\* scale 10 or 100, which is not negative and is not -1; a call that fails
\* returns -1; so the two cannot be confused.
C18_SentinelUnambiguous ==
  /\ Returned => result.kind \in {"value", "error"}
  /\ result.kind = "value" =>
       /\ result.num \in 0..65535
       /\ result.den \in {10, 100}
       /\ result.num # (-1) * result.den
       /\ result.num = response[4] * 256 + response[5]
  /\ result.kind = "error" => result.num = -1 /\ result.den = 1

\* the largest raw value, FF FF, was decoded and returned
C18_Witness ==
  /\ Returned
  /\ result.kind = "value"
  /\ response[4] = 255 /\ response[5] = 255
  /\ result.num = 65535
  /\ fn = "pressure"

\* The request frame for each address and register
RequestFrame == [a \in AddrSet, r \in RegSet |-> BuildRequest(a, r)]

\* C19: the two functions, called with the same addr and reg and given the
\* same result by every transport call, hand the same 8 bytes to WriteFile,
\* take the same decision at every test of the while condition, so that they
\* issue the same reads and leave the loop together, and return the same
\* error or the same raw value, over 10 for temperature and over 100 for
\* pressure.
C19_SameProtocol ==
  /\ writes = 1 => request = RequestFrame[addr, reg]
  /\ pc = "loop" =>
       (LoopGuard(total_read, GetTickCount(tick0, now), start_time)
          <=> LoopGuard(total_read, GetTickCount(tick0, nowOther), start_time))
  /\ result.kind = "value" =>
       /\ result.num = U16(response[4] * 256 + response[5])
       /\ result.den = (IF fn = "temperature" THEN 10 ELSE 100)
  /\ result.kind = "error" => result = ErrorReturn(result.err)

\* after an empty read, which lasts 3560 ms in one function and 3060 ms in
\* the other, both have left the loop and failed
C19_Witness ==
  /\ Returned
  /\ Failed("IncompleteResponse")
  /\ reads = 3
  /\ total_read = 4
  /\ nowOther # now

====
